---- MODULE Spec2Model ----
(***************************************************************************)
(* Model of pyquil/api/_qpu.py: decode_buffer, _extract_memory_regions and *)
(* the QPU class (__init__, execute, get_result).                          *)
(*                                                                         *)
(* Numbers: every sample is a multiple of one half and is stored as its    *)
(* count of halves (3 stands for 1.5, 4 for 2), so that the float -> int64 *)
(* conversion numpy performs on assignment is a real, lossy operation.     *)
(* Arrays are records [shape, dtype, data]; a 1-D array's data is a        *)
(* sequence of scalars, a 2-D array's data a sequence of rows.  Python     *)
(* dicts whose iteration order the code relies on (memory_descriptors,     *)
(* ro_sources, the grouping) are sequences in insertion order.             *)
(***************************************************************************)
EXTENDS Integers, Sequences, FiniteSets, TLC

VARIABLES
    memory_descriptors,  \* argument of _extract_memory_regions
    ro_sources,          \* argument of _extract_memory_regions
    buffers,             \* argument of _extract_memory_regions
    pc,                  \* "ready" before the call, "done" after it
    outcome,             \* what the call returned or raised
    execution_options,   \* QPU.execution_options
    submitted,           \* submit() calls made by QPU.execute, by job id
    responses,           \* QPUExecuteResponse objects handed out, by job id
    retrieved,           \* the latest retrieve_results() call of QPU.get_result
    last_result          \* outcome of the latest QPU.get_result

extractVars == <<memory_descriptors, ro_sources, buffers, pc, outcome>>
qpuVars == <<execution_options, submitted, responses, retrieved, last_result>>
vars == <<memory_descriptors, ro_sources, buffers, pc, outcome,
          execution_options, submitted, responses, retrieved, last_result>>

----------------------------------------------------------------------------
(* Bounds of the model *)

MaxRegions == 2
MaxLen == 2
MaxSrc == 2
MaxRows == 2
MaxJobs == 2

----------------------------------------------------------------------------
(* Exceptions and results *)

Return(v) == [exc |-> "None", value |-> v]
Raise(e) == [exc |-> e, value |-> <<>>]

----------------------------------------------------------------------------
(* numpy pieces used by the code *)

Half(n) == n + n
\* the whole number n, as a count of halves

TruncToInt(v) == IF v >= 0 THEN Half(v \div 2) ELSE 0 - Half((0 - v) \div 2)
\* C cast of a floating value to a signed integer: toward zero

Cast(v, dtype) == IF dtype = "int64" THEN TruncToInt(v) ELSE v
\* int32 -> int64, int32 -> float64 and float32 -> float64 are exact

NDim(a) == Len(a.shape)

AddAxis(buf) ==
    [shape |-> <<buf.shape[1], 1>>,
     dtype |-> buf.dtype,
     data  |-> [r \in 1..buf.shape[1] |-> <<buf.data[r]>>]]

IsComplexObj(buf) == buf.dtype = "complex64"

ColumnStackRealImag(buf) ==
    LET w == buf.shape[2] IN
    [shape |-> <<buf.shape[1], w + w>>,
     dtype |-> "float32",
     data  |-> [r \in 1..buf.shape[1] |->
                  [c \in 1..(w + w) |->
                     IF c <= w THEN buf.data[r][c].re
                               ELSE buf.data[r][c - w].im]]]

StrideCount(n, i, step) == IF n > i THEN ((n - i - 1) \div step) + 1 ELSE 0

StrideRows(buf, i, step) ==
    [k \in 1..StrideCount(buf.shape[1], i, step) |->
        buf.data[i + 1 + (k - 1) * step]]
\* buf[i::step, :] with i counted from 0

BroadcastEitherOne(srcRows, dstRows) ==
    srcRows = dstRows \/ srcRows = 1 \/ dstRows = 1
\* faulty variant: also accepts a longer slice for a one-row region

Broadcastable(srcRows, dstRows) == srcRows = dstRows \/ srcRows = 1

SetColumns(region, offset, end, rows) ==
    [region EXCEPT !.data =
        [s \in 1..region.shape[1] |->
            [c \in 1..region.shape[2] |->
                IF c > offset /\ c <= end
                THEN Cast((IF Len(rows) = 1 THEN rows[1] ELSE rows[s])[c - offset],
                          region.dtype)
                ELSE region.data[s][c]]]]
\* region[:, offset:end] = rows, for Broadcastable(Len(rows), region.shape[1])

----------------------------------------------------------------------------
(* _extract_memory_regions *)

dtype == [BIT |-> "int64", INTEGER |-> "int64", REAL |-> "float64",
          FLOAT |-> "float64"]

allocDefaultInt(spec, num_shots, fill) ==
    Return([shape |-> <<num_shots, spec.length>>,
            dtype |-> IF spec.type \in DOMAIN dtype THEN dtype[spec.type]
                      ELSE "int64",
            data  |-> [s \in 1..num_shots |-> [c \in 1..spec.length |-> fill]]])
\* faulty variant: dtype.get(spec.type, np.int64), no error for an unknown type

alloc(spec, num_shots, fill) ==
    IF spec.type \in DOMAIN dtype
    THEN Return([shape |-> <<num_shots, spec.length>>,
                 dtype |-> dtype[spec.type],
                 data  |-> [s \in 1..num_shots |-> [c \in 1..spec.length |-> fill]]])
    ELSE Raise("ValueError: Unexpected memory type")
\* np.ndarray(...) leaves the cells uninitialised: fill is what memory held

KeyIndex(groups, key) ==
    IF \E j \in 1..Len(groups) : groups[j].key = key
    THEN CHOOSE j \in 1..Len(groups) : groups[j].key = key
    ELSE 0

AppendMref(groups, key, mref) ==
    LET j == KeyIndex(groups, key) IN
    IF j = 0 THEN Append(groups, [key |-> key, mrefs |-> <<mref>>])
    ELSE [groups EXCEPT ![j].mrefs = Append(@, mref)]
\* sources[mref.name][key].append(mref) on a defaultdict(list)

DescriptorNames(md) == {md[i].name : i \in 1..Len(md)}

RECURSIVE GroupSourcesBreak(_, _, _)
GroupSourcesBreak(sources, ro, i) ==
    IF i > Len(ro) THEN sources
    ELSE IF ro[i].name \notin DOMAIN sources
         THEN sources
         ELSE GroupSourcesBreak(
                [sources EXCEPT ![ro[i].name] = AppendMref(@, ro[i].key, ro[i])],
                ro, i + 1)
\* faulty variant: "break" instead of "continue" at an undeclared region

RECURSIVE GroupSources(_, _, _)
GroupSources(sources, ro, i) ==
    IF i > Len(ro) THEN sources
    ELSE IF ro[i].name \notin DOMAIN sources
         THEN GroupSources(sources, ro, i + 1)
         ELSE GroupSources(
                [sources EXCEPT ![ro[i].name] = AppendMref(@, ro[i].key, ro[i])],
                ro, i + 1)

Sources(md, ro) == GroupSources([n \in DescriptorNames(md) |-> <<>>], ro, 1)

RECURSIVE Insert(_, _)
Insert(sorted, m) ==
    IF sorted = <<>> THEN <<m>>
    ELSE IF m.offset < Head(sorted).offset THEN <<m>> \o sorted
         ELSE <<Head(sorted)>> \o Insert(Tail(sorted), m)

UnsortedMref(mref_list) == mref_list
\* faulty variant: the lanes in insertion order

RECURSIVE SortedMref(_)
SortedMref(mref_list) ==
    IF mref_list = <<>> THEN <<>>
    ELSE Insert(SortedMref(Tail(mref_list)), Head(mref_list))

Prepare(buf) ==
    LET b2 == IF NDim(buf) = 1 THEN AddAxis(buf) ELSE buf IN
    IF IsComplexObj(b2) THEN ColumnStackRealImag(b2) ELSE b2

LaneEndOneColumn(offset, width) == offset + 1
\* faulty variant: every lane taken to be one column wide

LaneEnd(offset, width) == offset + width
\* end = mref.offset + width

OverflowsOffByOne(end, region_width) == end > region_width + 1
\* faulty variant: the bound check off by one

Overflows(end, region_width) == end > region_width

RECURSIVE PlaceLanes(_, _, _, _, _, _, _)
PlaceLanes(st, mref_name, region_width, key, buf, sorted_mref, i) ==
    IF i >= Len(sorted_mref) THEN st
    ELSE LET mref == sorted_mref[i + 1]
             num_lanes == Len(sorted_mref)
             width == buf.shape[2]
             end == LaneEnd(mref.offset, width)
             rows == StrideRows(buf, i, num_lanes)
         IN  IF Overflows(end, region_width)
             THEN [exc |-> "ValueError: Attempted to fill", regions |-> <<>>,
                   writes |-> <<>>]
             ELSE IF ~Broadcastable(Len(rows), st.regions[mref_name].shape[1])
             THEN [exc |-> "ValueError: could not broadcast", regions |-> <<>>,
                   writes |-> <<>>]
             ELSE PlaceLanes(
                    [st EXCEPT
                       !.regions[mref_name] = SetColumns(@, mref.offset, end, rows),
                       !.writes = Append(@, [name |-> mref_name, offset |-> mref.offset,
                                             end |-> end, key |-> key, lane |-> i,
                                             nrows |-> Len(rows)])],
                    mref_name, region_width, key, buf, sorted_mref, i + 1)
\* the loop "for i, mref in enumerate(sorted_mref)"; writes logs each assignment

RECURSIVE PlaceSets(_, _, _, _, _, _)
PlaceSets(st, mref_name, region_width, mref_dict, bufs, j) ==
    IF st.exc # "None" \/ j > Len(mref_dict) THEN st
    ELSE LET key == mref_dict[j].key IN
         IF key \notin DOMAIN bufs
         THEN [exc |-> "KeyError", regions |-> <<>>, writes |-> <<>>]
         ELSE PlaceSets(
                PlaceLanes(st, mref_name, region_width, key, Prepare(bufs[key]),
                           SortedMref(mref_dict[j].mrefs), 0),
                mref_name, region_width, mref_dict, bufs, j + 1)
\* the loop "for key, mref_list in mref_dict.items()"

RECURSIVE AssembleRegions(_, _, _, _, _, _, _)
AssembleRegions(st, md, sources, bufs, num_shots, fill, r) ==
    IF st.exc # "None" \/ r > Len(md) THEN st
    ELSE LET mref_name == md[r].name
             a == alloc(md[r], num_shots, fill)
         IN  IF a.exc # "None"
             THEN [exc |-> a.exc, regions |-> <<>>, writes |-> <<>>]
             ELSE AssembleRegions(
                    PlaceSets([st EXCEPT !.regions = @ @@ (mref_name :> a.value)],
                              mref_name, md[r].length, sources[mref_name], bufs, 1),
                    md, sources, bufs, num_shots, fill, r + 1)
\* the loop "for mref_name, mref_dict in sources.items()"

NumShotsUndivided(first_buffer, first_list) == first_buffer.shape[1]
\* faulty variant: the buffer length taken as the number of shots

NumShots(first_buffer, first_list) == first_buffer.shape[1] \div Len(first_list)

extract_memory_regions(md, ro, bufs, fill) ==
    LET sources == Sources(md, ro) IN
    IF Len(md) = 0
    THEN [exc |-> "StopIteration", regions |-> <<>>, writes |-> <<>>]
    ELSE IF sources[md[1].name] = <<>>
    THEN [exc |-> "StopIteration", regions |-> <<>>, writes |-> <<>>]
    ELSE LET first == sources[md[1].name][1] IN
         IF first.key \notin DOMAIN bufs
         THEN [exc |-> "KeyError", regions |-> <<>>, writes |-> <<>>]
         ELSE AssembleRegions([exc |-> "None", regions |-> <<>>, writes |-> <<>>],
                              md, sources, bufs,
                              NumShots(bufs[first.key], first.mrefs), fill, 1)

----------------------------------------------------------------------------
(* Inputs of _extract_memory_regions *)

RegionNames == <<"ro", "aux", "theta", "beta">>
StaleName == "stale"
Keys == {"q0", "q1"}
ElementTypes == {"BIT", "REAL", "OCTAL"}
BufferKinds == {"int1d", "int2d", "complex1d"}
Garbage == {Half(0 - 7), Half(9)}

KeyNumber(k) == IF k = "q0" THEN 1 ELSE 2

Sample(k, r, c) == Half(100 * KeyNumber(k) + 10 * r + c)
\* a whole number that names the buffer, the row and the column it came from

ComplexSample(k, r) == [re |-> Sample(k, r, 1), im |-> Sample(k, r, 2) + 1]
\* whole real part, imaginary part ending in .5

DecodedBuffer(k, kind, n) ==
    IF kind = "int1d"
    THEN [shape |-> <<n>>, dtype |-> "int32",
          data |-> [r \in 1..n |-> Sample(k, r, 1)]]
    ELSE IF kind = "int2d"
    THEN [shape |-> <<n, 2>>, dtype |-> "int32",
          data |-> [r \in 1..n |-> [c \in 1..2 |-> Sample(k, r, c)]]]
    ELSE [shape |-> <<n>>, dtype |-> "complex64",
          data |-> [r \in 1..n |-> ComplexSample(k, r)]]

BufferChoices(k) ==
    {<<>>} \cup {<<DecodedBuffer(k, kind, n)>> : kind \in BufferKinds, n \in 0..MaxRows}
\* no buffer under key k, or one

BufferMaps ==
    {[k \in {x \in Keys : c[x] # <<>>} |-> c[k][1]] :
        c \in {f \in [Keys -> UNION {BufferChoices(k) : k \in Keys}] :
                  \A k \in Keys : f[k] \in BufferChoices(k)}}

Descriptors(n) ==
    [name : {RegionNames[n]}, type : ElementTypes, length : 1..MaxLen]

RECURSIVE DescriptorMaps(_)
DescriptorMaps(n) ==
    IF n = 0 THEN {<<>>}
    ELSE DescriptorMaps(n - 1) \cup
         {Append(m, d) : m \in {x \in DescriptorMaps(n - 1) : Len(x) = n - 1},
                         d \in Descriptors(n)}

Mrefs ==
    [name : {RegionNames[i] : i \in 1..MaxRegions} \cup {StaleName},
     offset : 0..(MaxLen - 1)]

Entries == [name : {m.name : m \in Mrefs}, offset : 0..(MaxLen - 1), key : Keys]

Fresh(t, e) ==
    \A i \in 1..Len(t) : ~(t[i].name = e.name /\ t[i].offset = e.offset)

RECURSIVE SourceTables(_)
SourceTables(n) ==
    IF n = 0 THEN {<<>>}
    ELSE LET shorter == SourceTables(n - 1) IN
         shorter \cup
         {Append(p[1], p[2]) :
             p \in {q \in {x \in shorter : Len(x) = n - 1} \X Entries :
                       Fresh(q[1], q[2])}}
\* a dict keyed by MemoryReference: no two entries with the same (name, offset)

----------------------------------------------------------------------------
(* The call of _extract_memory_regions on its own *)

NotCalled == [exc |-> "NotCalled", regions |-> <<>>, writes |-> <<>>]

InitExtract ==
    /\ memory_descriptors \in DescriptorMaps(MaxRegions)
    /\ ro_sources \in SourceTables(MaxSrc)
    /\ buffers \in BufferMaps
    /\ pc = "ready"
    /\ outcome = NotCalled
    /\ execution_options = "unset"
    /\ submitted = <<>>
    /\ responses = <<>>
    /\ retrieved = <<>>
    /\ last_result = NotCalled

ExtractMemoryRegions ==
    /\ pc = "ready"
    /\ \E fill \in Garbage :
          outcome' = extract_memory_regions(memory_descriptors, ro_sources,
                                            buffers, fill)
    /\ pc' = "done"
    /\ UNCHANGED <<memory_descriptors, ro_sources, buffers>>
    /\ UNCHANGED qpuVars

NextExtract == ExtractMemoryRegions

SpecExtract == InitExtract /\ [][NextExtract]_vars

----------------------------------------------------------------------------
(* decode_buffer *)

EmptyInt32 == [shape |-> <<0>>, dtype |-> "int32", data |-> <<>>]

decode_buffer(buffer) ==
    IF buffer.dtype = "complex"
    THEN [shape |-> <<Len(buffer.data)>>, dtype |-> "complex64",
          data |-> buffer.data]
    ELSE IF buffer.dtype = "integer"
    THEN [shape |-> <<Len(buffer.data)>>, dtype |-> "int32",
          data |-> buffer.data]
    ELSE EmptyInt32

----------------------------------------------------------------------------
(* QPU *)

None == <<>>
Some(x) == <<x>>
\* Optional[T]: None, or a value

ExecutionOptionsBuild(timeout, endpoint_id) ==
    [timeout_seconds |-> timeout,
     connection_strategy |->
        IF endpoint_id # None THEN <<"endpoint_id", endpoint_id[1]>>
        ELSE <<"default">>]

QPUInit(timeout, endpoint_id, options) ==
    IF options = None THEN ExecutionOptionsBuild(timeout, endpoint_id)
    ELSE options[1]

SubmitOptions(options, self_options) ==
    IF options # None THEN options ELSE Some(self_options)
\* execution_options or self.execution_options

QPUExecuteResponse(job_id, executable, options) ==
    [job_id |-> job_id, executable |-> executable, execution_options |-> options]

RetrieveOptions(execute_response) == execute_response.execution_options

Zeros00 == [shape |-> <<0, 0>>, dtype |-> "int64", data |-> <<>>]

ResultMemoryAlwaysRo(executable, decoded_buffers, fill) ==
    IF Cardinality(DOMAIN decoded_buffers) # 0
    THEN LET extracted == extract_memory_regions(executable.memory_descriptors,
                                                 executable.ro_sources,
                                                 decoded_buffers, fill)
         IN  [exc |-> extracted.exc, readout_data |-> extracted.regions,
              extract_called |-> TRUE]
    ELSE [exc |-> "None", readout_data |-> ("ro" :> Zeros00),
          extract_called |-> FALSE]
\* faulty variant: "else" instead of "elif not ro_sources"

ResultMemory(executable, decoded_buffers, fill) ==
    IF Cardinality(DOMAIN decoded_buffers) # 0
    THEN LET extracted == extract_memory_regions(executable.memory_descriptors,
                                                 executable.ro_sources,
                                                 decoded_buffers, fill)
         IN  [exc |-> extracted.exc, readout_data |-> extracted.regions,
              extract_called |-> TRUE]
    ELSE IF executable.ro_sources = <<>>
    THEN [exc |-> "None", readout_data |-> ("ro" :> Zeros00),
          extract_called |-> FALSE]
    ELSE [exc |-> "None", readout_data |-> <<>>, extract_called |-> FALSE]
\* lines 221-232 of get_result: result_memory, or the exception that escapes

(* Inputs of the QPU operations *)

Timeouts == {Some(30), Some(10)}
EndpointIds == {None, Some("ep")}
OptionsArguments ==
    {None, Some([timeout_seconds |-> Some(5),
                 connection_strategy |-> <<"direct_access">>])}

Desc(n, t, l) == [name |-> n, type |-> t, length |-> l]
Entry(n, o, k) == [name |-> n, offset |-> o, key |-> k]

Executables ==
    {[memory_descriptors |-> <<>>, ro_sources |-> <<>>],
     [memory_descriptors |-> <<Desc("ro", "BIT", 1)>>,
      ro_sources |-> <<Entry("ro", 0, "q0")>>],
     [memory_descriptors |-> <<Desc("ro", "BIT", 1), Desc("aux", "REAL", 2)>>,
      ro_sources |-> <<Entry("ro", 0, "q0"), Entry("aux", 0, "q1"),
                       Entry(StaleName, 0, "q1")>>]}

RawBuffer(k, tag, n) ==
    [dtype |-> tag,
     data |-> IF tag = "complex" THEN [r \in 1..n |-> ComplexSample(k, r)]
              ELSE [r \in 1..n |-> Sample(k, r, 1)]]

RawChoices(k) ==
    IF k = "q0"
    THEN {<<>>} \cup {<<RawBuffer(k, "integer", n)>> : n \in 1..MaxRows}
    ELSE {<<>>, <<RawBuffer(k, "complex", 1)>>, <<RawBuffer(k, "other", 1)>>}
\* q0 carries integer samples; q1 complex ones, or an unrecognised dtype

RawResults ==
    {[k \in {x \in Keys : c[x] # <<>>} |-> c[k][1]] :
        c \in {f \in [Keys -> UNION {RawChoices(k) : k \in Keys}] :
                  \A k \in Keys : f[k] \in RawChoices(k)}}
\* results.buffers as retrieve_results may hand it back

Init ==
    /\ \E timeout \in Timeouts, endpoint_id \in EndpointIds,
          options \in OptionsArguments :
          execution_options = QPUInit(timeout, endpoint_id, options)
    /\ submitted = <<>>
    /\ responses = <<>>
    /\ retrieved = <<>>
    /\ last_result = [exc |-> "NotCalled", readout_data |-> <<>>,
                      extract_called |-> FALSE]
    /\ memory_descriptors = <<>>
    /\ ro_sources = <<>>
    /\ buffers = <<>>
    /\ pc = "idle"
    /\ outcome = NotCalled

Execute ==
    /\ Len(submitted) < MaxJobs
    /\ \E executable \in Executables, options \in OptionsArguments :
          LET job_id == Len(submitted) + 1 IN
          /\ submitted' = Append(submitted,
                 [job_id |-> job_id,
                  execution_options |-> SubmitOptions(options, execution_options)])
          /\ responses' = Append(responses,
                 QPUExecuteResponse(job_id, executable, options))
    /\ UNCHANGED <<execution_options, retrieved, last_result>>
    /\ UNCHANGED extractVars

GetResult ==
    /\ \E i \in 1..Len(responses), raw \in RawResults, fill \in Garbage :
          LET execute_response == responses[i]
              decoded_buffers == [k \in DOMAIN raw |-> decode_buffer(raw[k])]
              memory == ResultMemory(execute_response.executable, decoded_buffers,
                                     fill)
          IN  /\ retrieved' = <<[job_id |-> execute_response.job_id,
                                  execution_options |->
                                      RetrieveOptions(execute_response),
                                  buffers |-> raw]>>
              /\ last_result' = memory
    /\ UNCHANGED <<execution_options, submitted, responses>>
    /\ UNCHANGED extractVars

Next == Execute \/ GetResult

Spec == Init /\ [][Next]_vars

----------------------------------------------------------------------------
(* Vocabulary of the properties of _extract_memory_regions, read off the   *)
(* call's arguments                                                        *)

Returned == pc = "done" /\ outcome.exc = "None"

Declared(name) == \E d \in 1..Len(memory_descriptors) : memory_descriptors[d].name = name

DescriptorOf(name) ==
    memory_descriptors[CHOOSE d \in 1..Len(memory_descriptors) :
                          memory_descriptors[d].name = name]

Refs == 1..Len(ro_sources)
DeclaredRefs == {i \in Refs : Declared(ro_sources[i].name)}
StaleRefs == Refs \ DeclaredRefs
RefsOf(name) == {i \in Refs : ro_sources[i].name = name}

LaneSetOf(i) ==
    {j \in Refs : ro_sources[j].name = ro_sources[i].name
                  /\ ro_sources[j].key = ro_sources[i].key}

Lanes(i) == Cardinality(LaneSetOf(i))

LaneIndex(i) ==
    Cardinality({j \in LaneSetOf(i) : ro_sources[j].offset < ro_sources[i].offset})
\* rank of reference i in its lane set, by ascending offset, from 0

HasBuffer(i) == ro_sources[i].key \in DOMAIN buffers

BufferRows(i) == buffers[ro_sources[i].key].shape[1]

LaneWidth(i) ==
    LET b == buffers[ro_sources[i].key]
        w == IF Len(b.shape) = 1 THEN 1 ELSE b.shape[2]
    IN  IF b.dtype = "complex64" THEN w + w ELSE w
\* W: per-lane width after 1-D reshaping and complex widening

LaneRows(i) ==
    Cardinality({r \in 0..(BufferRows(i) - 1) :
                    r >= LaneIndex(i) /\ (r - LaneIndex(i)) % Lanes(i) = 0})
\* how many of the rows i, i+L, i+2L, ... the buffer holds

WidenedRow(i, r) ==
    LET b == buffers[ro_sources[i].key]
        x == b.data[r]
    IN  IF Len(b.shape) = 1
        THEN IF b.dtype = "complex64" THEN <<x.re, x.im>> ELSE <<x>>
        ELSE x
\* row r (from 1) of reference i's buffer as plain numbers; the inputs hold
\* no complex 2-D buffer

Range(i) == (ro_sources[i].offset + 1)..(ro_sources[i].offset + LaneWidth(i))
\* columns [offset, offset + W), counted from 1

Representative ==
    CHOOSE i \in RefsOf(memory_descriptors[1].name) :
        \A j \in RefsOf(memory_descriptors[1].name) : i <= j
\* first reference of the first declared region

HasRepresentative ==
    /\ Len(memory_descriptors) > 0
    /\ RefsOf(memory_descriptors[1].name) # {}
    /\ HasBuffer(Representative)

RepresentativeShots == BufferRows(Representative) \div Lanes(Representative)

OverflowingRefs ==
    {i \in DeclaredRefs :
        HasBuffer(i) /\
        ro_sources[i].offset + LaneWidth(i) > DescriptorOf(ro_sources[i].name).length}

BadTypeRegions ==
    {d \in 1..Len(memory_descriptors) :
        memory_descriptors[d].type \notin {"BIT", "INTEGER", "REAL", "FLOAT"}}

AllBuffersPresent == \A i \in DeclaredRefs : HasBuffer(i)

ShotsFit ==
    \A i \in DeclaredRefs :
        HasBuffer(i) => LaneRows(i) = RepresentativeShots \/ LaneRows(i) = 1
\* every lane's slice is assignable to a region of RepresentativeShots rows

----------------------------------------------------------------------------
(* Properties of _extract_memory_regions, under SpecExtract *)

UsedRegionNames ==
    {memory_descriptors[d].name : d \in {x \in 1..Len(memory_descriptors) :
                                            RefsOf(memory_descriptors[x].name) # {}}}

\* C1: the keys of the returned map are exactly the declared region names
\* that have at least one entry in ro_sources; a declared region without a
\* readout source is absent from the result.
C1_UnusedRegionsAbsent == Returned => DOMAIN outcome.regions = UsedRegionNames

NonStale(ro) == SelectSeq(ro, LAMBDA e : Declared(e.name))

\* C2: entries of ro_sources whose region is not declared change nothing: the
\* call ends exactly as it does on ro_sources without them (same exception,
\* or same returned map), also when every entry is stale and when a stale
\* entry's buffer key is missing from buffers.
C2_StaleEntriesIgnored ==
    pc = "done" =>
        \E fill \in Garbage :
            outcome = extract_memory_regions(memory_descriptors,
                                             NonStale(ro_sources), buffers, fill)

C2_Witness ==
    /\ Returned
    /\ \E i \in StaleRefs : ~HasBuffer(i)
    /\ DeclaredRefs # {}

\* C3: every returned array has shape (numShots, descriptor.length), numShots
\* being the rows of the representative lane set's buffer divided by the
\* number of references in that lane set, however many lanes or buffers fed
\* the region.
C3_ShapeIsShotsByLength ==
    Returned =>
        \A n \in DOMAIN outcome.regions :
            outcome.regions[n].shape =
                <<RepresentativeShots, DescriptorOf(n).length>>

C3_Witness ==
    /\ Returned
    /\ BufferRows(Representative) = 2
    /\ Lanes(Representative) = 2
    /\ \E n \in DOMAIN outcome.regions : outcome.regions[n].shape = <<1, 2>>

\* C4 (as stated): on return every placed lane set has rows / lanes =
\* numShots and each lane contributed exactly numShots rows, none repeated or
\* dropped.
C4_ShotCountConsistent ==
    Returned =>
        \A i \in DeclaredRefs :
            /\ BufferRows(i) \div Lanes(i) = RepresentativeShots
            /\ LaneRows(i) = RepresentativeShots

\* C4 (amended): on return every declared reference was placed, and its lane
\* contributed either exactly numShots rows or exactly one row (which the
\* assignment repeats over all numShots shot rows; with numShots = 0 that row
\* is dropped).
C4_LaneRowsShotsOrOne ==
    Returned =>
        /\ Len(outcome.writes) = Cardinality(DeclaredRefs)
        /\ \A i \in DeclaredRefs :
              /\ HasBuffer(i)
              /\ LaneRows(i) = RepresentativeShots \/ LaneRows(i) = 1

C4_Witness ==
    /\ Returned
    /\ RepresentativeShots = 2
    /\ \E i \in DeclaredRefs : LaneRows(i) = 1 /\ BufferRows(i) = 1

OverflowError == "ValueError: Attempted to fill"
TypeError == "ValueError: Unexpected memory type"

\* C5 (as stated): if any reference of a declared region has offset + W >
\* descriptor.length, the call fails with the region-overflow error.
C5_OverflowAlwaysReported ==
    (pc = "done" /\ OverflowingRefs # {}) => outcome.exc = OverflowError

\* C5 (amended): if any reference of a declared region has offset + W >
\* descriptor.length, the call raises and returns no regions, so no returned
\* region holds data of such a lane; the exception is the region-overflow
\* error whenever the input has no other fault (the first declared region has
\* a readout source, every referenced buffer exists, every descriptor type is
\* recognised and every lane's rows fit the shot count).
C5_OverflowNeverReturns ==
    (pc = "done" /\ OverflowingRefs # {}) =>
        /\ outcome.exc # "None"
        /\ DOMAIN outcome.regions = {}
        /\ (HasRepresentative /\ AllBuffersPresent /\ BadTypeRegions = {} /\ ShotsFit)
              => outcome.exc = OverflowError

C5_Witness ==
    /\ pc = "done"
    /\ outcome.exc = OverflowError
    /\ \E i \in OverflowingRefs :
          /\ ro_sources[i].offset = 1
          /\ LaneWidth(i) = 2
          /\ DescriptorOf(ro_sources[i].name).length = 2

Tiled(n) ==
    /\ \A i \in RefsOf(n) : HasBuffer(i)
    /\ \A i, j \in RefsOf(n) : i # j => Range(i) \cap Range(j) = {}
    /\ UNION {Range(i) : i \in RefsOf(n)} = 1..DescriptorOf(n).length
\* the lanes of region n do not overlap and exactly cover its columns

C7_RangesDisjoint ==
    Returned =>
        \A i, j \in DeclaredRefs :
            (i # j /\ ro_sources[i].name = ro_sources[j].name)
                => Range(i) \cap Range(j) = {}

WritesOf(i) ==
    {k \in 1..Len(outcome.writes) :
        /\ outcome.writes[k].name = ro_sources[i].name
        /\ outcome.writes[k].offset = ro_sources[i].offset
        /\ outcome.writes[k].key = ro_sources[i].key}

\* C7 (amended): on return every reference of a declared region has been
\* written exactly once, into the column range [offset, offset+W) of its
\* region, which lies within the declared length; the ranges of distinct
\* references of a region are disjoint when both lanes are one column wide,
\* and may overlap otherwise.
C7_EachReferenceWrittenOnce ==
    Returned =>
        /\ Len(outcome.writes) = Cardinality(DeclaredRefs)
        /\ \A i \in DeclaredRefs :
              /\ Cardinality(WritesOf(i)) = 1
              /\ \A k \in WritesOf(i) :
                    /\ outcome.writes[k].end = ro_sources[i].offset + LaneWidth(i)
                    /\ outcome.writes[k].end <= DescriptorOf(ro_sources[i].name).length
        /\ \A i, j \in DeclaredRefs :
              (/\ i # j
               /\ ro_sources[i].name = ro_sources[j].name
               /\ LaneWidth(i) = 1
               /\ LaneWidth(j) = 1) => Range(i) \cap Range(j) = {}

C7_Witness ==
    /\ Returned
    /\ \E i, j \in DeclaredRefs :
          /\ i # j
          /\ outcome.regions[ro_sources[i].name].shape[1] > 0
          /\ ro_sources[i].name = ro_sources[j].name
          /\ ro_sources[i].key # ro_sources[j].key
          /\ Range(i) \cap Range(j) # {}

\* C9 (as stated): with a descriptor whose type is outside {BIT, INTEGER,
\* REAL, FLOAT} the call fails with "Unexpected memory type", whatever the
\* order of the descriptors and the contents of ro_sources and buffers.
C9_BadTypeAlwaysReported ==
    (pc = "done" /\ BadTypeRegions # {}) => outcome.exc = TypeError

FirstBadType == CHOOSE d \in BadTypeRegions : \A e \in BadTypeRegions : d <= e

PlacedBeforeBadType ==
    {i \in DeclaredRefs :
        \E d \in 1..(FirstBadType - 1) : memory_descriptors[d].name = ro_sources[i].name}

NothingFailsBeforeBadType ==
    /\ HasRepresentative
    /\ \A i \in PlacedBeforeBadType :
          /\ HasBuffer(i)
          /\ i \notin OverflowingRefs
          /\ LaneRows(i) = RepresentativeShots \/ LaneRows(i) = 1

\* C9 (amended): with a descriptor whose type is outside {BIT, INTEGER, REAL,
\* FLOAT} the call raises and returns no regions; the exception is
\* "Unexpected memory type" exactly when nothing fails earlier, i.e. the shot
\* count can be derived (the first declared region has a readout source whose
\* buffer exists) and every region declared before the offending one is placed
\* without a missing buffer, an overflow or a row mismatch.  Whether the
\* offending region has a readout source does not matter.
C9_BadTypeNeverReturns ==
    (pc = "done" /\ BadTypeRegions # {}) =>
        /\ outcome.exc # "None"
        /\ DOMAIN outcome.regions = {}
        /\ outcome.exc = TypeError <=> NothingFailsBeforeBadType

C9_Witness ==
    /\ pc = "done"
    /\ outcome.exc = TypeError
    /\ FirstBadType > 1
    /\ RefsOf(memory_descriptors[FirstBadType].name) = {}

----------------------------------------------------------------------------
(* Properties of QPU.execute and QPU.get_result, under Spec *)

Fetched == retrieved # <<>>
LastResponse == responses[retrieved[1].job_id]
NoBuffers == DOMAIN retrieved[1].buffers = {}

\* C8: when the retrieved buffer map is empty, get_result raises nothing and
\* does not call _extract_memory_regions; readout_data is exactly one region
\* "ro" of shape (0, 0) and integer dtype if the executable's ro_sources is
\* empty, and the empty map otherwise.
C8_EmptyBufferFallback ==
    (Fetched /\ NoBuffers) =>
        /\ last_result.exc = "None"
        /\ ~last_result.extract_called
        /\ IF LastResponse.executable.ro_sources = <<>>
           THEN /\ DOMAIN last_result.readout_data = {"ro"}
                /\ last_result.readout_data["ro"].shape = <<0, 0>>
                /\ last_result.readout_data["ro"].dtype = "int64"
           ELSE DOMAIN last_result.readout_data = {}

C8_Witness ==
    /\ Fetched
    /\ NoBuffers
    /\ LastResponse.executable.ro_sources = <<>>
    /\ DOMAIN last_result.readout_data = {"ro"}

\* C10: the execution options get_result passes to retrieve_results are the
\* options execute passed to submit for that job, with an explicit
\* execution_options argument and without one.
C10_RetrieveUsesSubmitOptions ==
    Fetched =>
        retrieved[1].execution_options =
            submitted[retrieved[1].job_id].execution_options

====
